---- MODULE Spec2Model ----
(***************************************************************************)
(* Model of homework.py: a Telegram bot that polls the Practicum homework  *)
(* API, validates the answer, parses the status of the newest homework and *)
(* notifies a chat.  One action per function call / block of main().       *)
(*                                                                         *)
(* Text literals of the program are Russian; they are transliterated to    *)
(* ASCII here, one model literal per source literal.                       *)
(***************************************************************************)
EXTENDS Naturals, Sequences, FiniteSets, TLC

VARIABLES
    PRACTICUM_TOKEN,   \* os.getenv('PRACTICUM_TOKEN')            (line 18)
    TELEGRAM_TOKEN,    \* os.getenv('TELEGRAM_TOKEN')             (line 19)
    TELEGRAM_CHAT_ID,  \* os.getenv('TELEGRAM_CHAT_ID')           (line 20)
    pc,                \* position of main()
    previous_status,   \* main() local                            (line 153)
    last_error,        \* main() local                            (line 154)
    response,          \* main() local, result of get_api_answer  (line 158)
    homework,          \* main() local, result of check_response  (line 159)
    current_status,    \* main() local, result of parse_status    (line 162)
    error,             \* exception travelling to main()'s except (line 168)
    net,               \* what requests.get / response.json() did (lines 71, 88)
    calls,             \* send_message invocations of this iteration
    logs,              \* logger records of this iteration
    cur,               \* what this iteration did so far
    prev,              \* what the previous iteration did
    seen,              \* the last status message parse_status returned so far
    e2e                \* the run so far, while it follows Scenario

vars == <<PRACTICUM_TOKEN, TELEGRAM_TOKEN, TELEGRAM_CHAT_ID, pc,
          previous_status, last_error, response, homework, current_status,
          error, net, calls, logs, cur, prev, seen, e2e>>

env == <<PRACTICUM_TOKEN, TELEGRAM_TOKEN, TELEGRAM_CHAT_ID>>

\* the records kept across iterations, written when an iteration ends
hist == <<seen, e2e>>

-----------------------------------------------------------------------------
(* Bounds and input domains *)

\* longest 'homeworks' list the API returns in the model
MaxHomeworks == 2

\* os.getenv gives None for an unset variable, else the string
None == "<None>"
EnvValues == {None, "", "secret"}

StatusValues == {"approved", "reviewing", "rejected", "unknown"}
NameValues == {"hw1", "hw2"}
RecordKeys == {"status", "homework_name"}

\* http codes other than 200 the server answers with
BadCodes == {503}

-----------------------------------------------------------------------------
(* Python values *)

\* every value carries its Python type, as isinstance() and == see it
Str(s) == [type |-> "str", v |-> s]
NoneValue == [type |-> "NoneType", v |-> None]
List(items) == [type |-> "list", v |-> items]
Dict(d) == [type |-> "dict", v |-> d]

\* a homework record: a dict with any subset of the two keys
Records ==
    { Dict(d) : d \in UNION { [K -> StatusValues \cup NameValues] :
                                K \in SUBSET RecordKeys } }
HomeworkRecords ==
    { r \in Records :
        /\ "status" \in DOMAIN r.v => r.v["status"] \in StatusValues
        /\ "homework_name" \in DOMAIN r.v => r.v["homework_name"] \in NameValues }

\* the records behind the newest one: a well-formed and an empty one
OlderRecords ==
    { r \in HomeworkRecords :
        \/ DOMAIN r.v = {}
        \/ /\ DOMAIN r.v = RecordKeys
           /\ r.v["status"] = "approved"
           /\ r.v["homework_name"] = "hw1" }

\* the API lists the newest homework first
HomeworkLists ==
    {<<>>} \cup
    UNION { { <<first>> \o older : older \in [1..n -> OlderRecords] } :
              first \in HomeworkRecords, n \in 0..(MaxHomeworks - 1) }

\* what response.json() can give: not a dict, a dict without the key, a
\* dict whose 'homeworks' is null, a string, or a list of records
Responses ==
    {List(<<>>)}
      \cup {Dict(<<>>)}
      \cup {Dict([homeworks |-> NoneValue])}
      \cup {Dict([homeworks |-> Str("soon")])}
      \cup {Dict([homeworks |-> List(l)]) : l \in HomeworkLists}

NoValue == [type |-> "unbound", v |-> None]
\* an exception: its class, its str() and the function whose code raised it
NoError == [type |-> "none", str |-> "", by |-> "nobody"]
Raise(t, s, by) == [type |-> t, str |-> s, by |-> by]

-----------------------------------------------------------------------------
(* Constants of the program *)

\* line 22; the sleep itself is not timed in the model
RETRY_PERIOD == 600

\* HTTPStatus.OK, line 78
HTTP_OK == 200

\* lines 27-31
HOMEWORK_VERDICTS ==
    [approved  |-> "Rabota proverena: revyueru vse ponravilos. Ura!",
     reviewing |-> "Rabota vzyata na proverku revyuerom.",
     rejected  |-> "Rabota proverena: u revyuera est zamechaniya."]

\* the literal of lines 118 and 161
NO_NEW_STATUS == "U domashki ne poyavilsya novyj status"

\* str() of the TypeError CPython raises when an except clause names an
\* instance instead of a class (line 72)
EXCEPT_CLAUSE_ERROR ==
    "catching classes that do not inherit from BaseException is not allowed"

\* str() of the error bot.send_message fails with
SEND_FAILURE == "Timed out"

\* str() of the error response.json() fails with on a body that is no JSON
JSON_FAILURE == "Expecting value: line 1 column 1 (char 0)"

\* Python truth value of an environment value: None and '' are false
Truthy(x) == x # None /\ x # ""

\* check_tokens with any() for all()
check_tokens_any ==
    \E x \in {PRACTICUM_TOKEN, TELEGRAM_TOKEN, TELEGRAM_CHAT_ID} : Truthy(x)
\* lines 50-52: all((PRACTICUM_TOKEN, TELEGRAM_TOKEN, TELEGRAM_CHAT_ID))
check_tokens ==
    \A x \in {PRACTICUM_TOKEN, TELEGRAM_TOKEN, TELEGRAM_CHAT_ID} : Truthy(x)

Log(level, by, text) == [level |-> level, by |-> by, text |-> text]
Call(by, text, delivered) == [by |-> by, text |-> text, delivered |-> delivered]

\* the result of running a function: the exception it raised (NoError if
\* it returned), the value it returned, and the send_message invocations
\* and logger records it made, in order
Outcome(exc, ret, cs, ls) == [exc |-> exc, ret |-> ret, calls |-> cs, logs |-> ls]

\* send_message without its try/except: the error of bot.send_message
\* leaves the function
send_message_reraise(by, message, delivered) ==
    IF delivered
    THEN Outcome(NoError, NoneValue, <<Call(by, message, TRUE)>>,
                 <<Log("debug", "send_message", "Soobshchenie otpravleno")>>)
    ELSE Outcome(Raise("TelegramError", SEND_FAILURE, "send_message"), NoValue,
                 <<Call(by, message, FALSE)>>,
                 <<Log("error", "send_message",
                       "Oshibka pri otpravke soobshcheniya: " \o SEND_FAILURE)>>)
\* lines 55-62.  by: the caller; delivered: whether bot.send_message
\* returned (TRUE) or raised (FALSE)
send_message(by, message, delivered) ==
    IF delivered
    THEN Outcome(NoError, NoneValue, <<Call(by, message, TRUE)>>,
                 <<Log("debug", "send_message", "Soobshchenie otpravleno")>>)
    ELSE Outcome(NoError, NoneValue, <<Call(by, message, FALSE)>>,
                 <<Log("error", "send_message",
                       "Oshibka pri otpravke soobshcheniya: " \o SEND_FAILURE)>>)

\* "log, send_message(...), raise exc": the statement sequence that ends
\* every failing branch of get_api_answer and check_response.  A raise
\* inside send_message would leave the function before its own raise.
NotifyAndRaise(by, logged, message, delivered, exc) ==
    LET s == send_message(by, message, delivered)
    IN  Outcome(IF s.exc # NoError THEN s.exc ELSE exc, NoValue,
                s.calls, logged \o s.logs)

\* what requests.get and response.json() do in one poll
Undecodable == [type |-> "undecodable", v |-> None]
NetOutcomes ==
    {[raises |-> TRUE, status_code |-> 0, json |-> Undecodable]}
      \cup {[raises |-> FALSE, status_code |-> c, json |-> j] :
              c \in BadCodes, j \in {Undecodable, Dict([homeworks |-> List(<<>>)])}}
      \cup {[raises |-> FALSE, status_code |-> HTTP_OK, json |-> j] :
              j \in Responses \cup {Undecodable}}

NoRequest == [raises |-> FALSE, status_code |-> 0, json |-> Undecodable]

\* lines 79-84; params, headers, reason and content are not in the text
BadStatusMessage(code) ==
    "Otvet servera ne yavlyaetsya uspeshnym: http_code = " \o ToString(code)

\* get_api_answer without the status check of lines 78-87
get_api_answer_any_status(n, delivered) ==
    IF n.raises
    THEN Outcome(Raise("TypeError", EXCEPT_CLAUSE_ERROR, "get_api_answer"), NoValue, <<>>, <<>>)
    ELSE IF n.json = Undecodable
    THEN Outcome(Raise("JSONDecodeError", JSON_FAILURE, "get_api_answer"), NoValue, <<>>, <<>>)
    ELSE Outcome(NoError, n.json, <<>>, <<>>)
\* lines 65-88
get_api_answer(n, delivered) ==
    IF n.raises
    THEN \* line 72: evaluating "except requests.RequestException():" raises
         \* TypeError, so lines 73-77 never run
         Outcome(Raise("TypeError", EXCEPT_CLAUSE_ERROR, "get_api_answer"), NoValue, <<>>, <<>>)
    ELSE IF n.status_code # HTTP_OK
    THEN NotifyAndRaise("get_api_answer",
             <<Log("error", "get_api_answer", BadStatusMessage(n.status_code))>>,
             BadStatusMessage(n.status_code), delivered,
             Raise("RequestException", "", "get_api_answer"))
    ELSE IF n.json = Undecodable
    THEN Outcome(Raise("JSONDecodeError", JSON_FAILURE, "get_api_answer"), NoValue, <<>>, <<>>)
    ELSE Outcome(NoError, n.json, <<>>, <<>>)

\* f"{type(x)}"
TypeName(x) == "<class '" \o x.type \o "'>"

\* dict.get(key): None when the key is absent
Get(d, key) == IF key \in DOMAIN d.v THEN d.v[key] ELSE NoneValue

WrongTypeMessage(x, wanted) ==
    "Oshibka poluchennyh dannyh:tip dannyh otveta ne sootvetstvuet dokumentacii."
      \o "Poluchen tip " \o TypeName(x) \o " vmesto " \o wanted
MissingKeyMessage ==
    "Oshibka poluchennyh dannyh:V otvete otsutstvuet klyuch homeworks."

\* check_response returning homeworks[-1] for homeworks[0]
check_response_last(resp, delivered) ==
    IF resp.type # "dict"
    THEN NotifyAndRaise("check_response",
             <<Log("error", "check_response", WrongTypeMessage(resp, "dict"))>>,
             WrongTypeMessage(resp, "dict"), delivered, Raise("TypeError", "", "check_response"))
    ELSE LET homeworks == Get(resp, "homeworks")
         IN  IF homeworks.type = "NoneType"
             THEN NotifyAndRaise("check_response", <<>>, MissingKeyMessage,
                      delivered, Raise("Exception", "", "check_response"))
             ELSE IF homeworks.type # "list"
             THEN NotifyAndRaise("check_response", <<>>,
                      WrongTypeMessage(homeworks, "list"), delivered,
                      Raise("TypeError", "", "check_response"))
             ELSE IF Len(homeworks.v) = 0
             THEN Outcome(NoError, Str(NO_NEW_STATUS), <<>>, <<>>)
             ELSE Outcome(NoError, homeworks.v[Len(homeworks.v)], <<>>, <<>>)
\* lines 91-120
check_response(resp, delivered) ==
    IF resp.type # "dict"
    THEN NotifyAndRaise("check_response",
             <<Log("error", "check_response", WrongTypeMessage(resp, "dict"))>>,
             WrongTypeMessage(resp, "dict"), delivered, Raise("TypeError", "", "check_response"))
    ELSE LET homeworks == Get(resp, "homeworks")
         IN  IF homeworks.type = "NoneType"
             THEN NotifyAndRaise("check_response", <<>>, MissingKeyMessage,
                      delivered, Raise("Exception", "", "check_response"))
             ELSE IF homeworks.type # "list"
             THEN NotifyAndRaise("check_response", <<>>,
                      WrongTypeMessage(homeworks, "list"), delivered,
                      Raise("TypeError", "", "check_response"))
             ELSE IF Len(homeworks.v) = 0
             THEN Outcome(NoError, Str(NO_NEW_STATUS), <<>>, <<>>)
             ELSE Outcome(NoError, homeworks.v[1], <<>>, <<>>)

\* line 145
StatusMessage(homework_name, verdict) ==
    "Izmenilsya status proverki raboty \"" \o homework_name \o "\". " \o verdict

\* parse_status without the check of lines 138-142: homeworks.get gives
\* None for the missing name
parse_status_unchecked_name(homeworks) ==
    IF "status" \notin DOMAIN homeworks.v
    THEN Outcome(Raise("KeyError", "", "parse_status"), NoValue, <<>>,
             <<Log("error", "parse_status",
                   "V otvete servera otsutstvuet klyuch\"status\" - \"status domashki\"")>>)
    ELSE LET status == homeworks.v["status"]
         IN  IF status \notin DOMAIN HOMEWORK_VERDICTS
             THEN Outcome(Raise("KeyError", "", "parse_status"), NoValue, <<>>,
                      <<Log("error", "parse_status",
                            "Poluchennyj \"status\" ne sootvetsvuet dokumentacii")>>)
             ELSE LET verdict == HOMEWORK_VERDICTS[status]
                  IN  IF "homework_name" \notin DOMAIN homeworks.v
                      THEN Outcome(NoError, Str(StatusMessage("None", verdict)),
                               <<>>, <<>>)
                      ELSE Outcome(NoError,
                               Str(StatusMessage(homeworks.v["homework_name"], verdict)),
                               <<>>, <<>>)
\* lines 123-145
parse_status(homeworks) ==
    IF "status" \notin DOMAIN homeworks.v
    THEN Outcome(Raise("KeyError", "", "parse_status"), NoValue, <<>>,
             <<Log("error", "parse_status",
                   "V otvete servera otsutstvuet klyuch\"status\" - \"status domashki\"")>>)
    ELSE LET status == homeworks.v["status"]
         IN  IF status \notin DOMAIN HOMEWORK_VERDICTS
             THEN Outcome(Raise("KeyError", "", "parse_status"), NoValue, <<>>,
                      <<Log("error", "parse_status",
                            "Poluchennyj \"status\" ne sootvetsvuet dokumentacii")>>)
             ELSE LET verdict == HOMEWORK_VERDICTS[status]
                  IN  IF "homework_name" \notin DOMAIN homeworks.v
                      THEN Outcome(Raise("KeyError", "", "parse_status"), NoValue, <<>>,
                               <<Log("error", "parse_status",
                                     "V otvete servera otsutstvuet klyuch\"homework_name\" - \"nazvanie domashki\"")>>)
                      ELSE Outcome(NoError,
                               Str(StatusMessage(homeworks.v["homework_name"], verdict)),
                               <<>>, <<>>)

\* line 169
FailureMessage(exc) == "Sboj v rabote programmy: " \o exc.str

-----------------------------------------------------------------------------
(* main(), lines 148-178 *)

\* Python ==, which is False across types
PyEq(a, b) == a.type = b.type /\ a.v = b.v

\* record of one loop iteration: previous_status when it began, how it
\* ended ("status": parse_status returned, "sentinel": the list was empty,
\* "error": the except block ran) and the message it ended with
\* polls: the calls of get_api_answer since the last time.sleep;
\* slept: the seconds slept since the last call of get_api_answer
NoIteration ==
    [pre |-> "", outcome |-> "none", text |-> "", calls |-> <<>>,
     polls |-> 0, slept |-> 0]
Begin(status, slept) ==
    [pre |-> status, outcome |-> "running", text |-> "", calls |-> <<>>,
     polls |-> 0, slept |-> slept]
End(outcome, text, cs) ==
    [pre |-> cur.pre, outcome |-> outcome, text |-> text, calls |-> cs,
     polls |-> cur.polls, slept |-> cur.slept]

\* the texts handed to send_message, in order
Texts(cs) == [i \in DOMAIN cs |-> cs[i].text]

\* the polls of the end-to-end scenario: a homework under review, the same
\* homework approved, then no homework
Answer(json) == [raises |-> FALSE, status_code |-> HTTP_OK, json |-> json]
Scenario ==
    <<Answer(Dict([homeworks |->
          List(<<Dict([status |-> "reviewing", homework_name |-> "hw1"])>>)])),
      Answer(Dict([homeworks |->
          List(<<Dict([status |-> "approved", homework_name |-> "hw1"])>>)])),
      Answer(Dict([homeworks |-> List(<<>>)]))>>

\* e2e while the run follows Scenario from the first poll on: the polls
\* done and the texts handed to send_message; NotFollowed once it left it
Followed(n, texts) == [on |-> TRUE, polls |-> n, sent |-> texts]
NotFollowed == [on |-> FALSE, polls |-> 0, sent |-> <<>>]

\* the send_message invocations of line 164 in cs
StatusCalls(cs) == { i \in DOMAIN cs : cs[i].by = "main:164" }

Init ==
    /\ PRACTICUM_TOKEN \in EnvValues
    /\ TELEGRAM_TOKEN \in EnvValues
    /\ TELEGRAM_CHAT_ID \in EnvValues
    /\ pc = "start"
    /\ previous_status = ""
    /\ last_error = ""
    /\ response = NoValue
    /\ homework = NoValue
    /\ current_status = ""
    /\ error = NoError
    /\ net = NoRequest
    /\ calls = <<>>
    /\ logs = <<>>
    /\ cur = NoIteration
    /\ prev = NoIteration
    /\ seen = [parsed |-> ""]
    /\ e2e = Followed(0, <<>>)

\* lines 151-154 and 175-178
Main ==
    /\ pc = "start"
    /\ IF check_tokens
       THEN /\ previous_status' = ""
            /\ last_error' = ""
            /\ cur' = Begin("", 0)
            /\ pc' = "poll"
            /\ UNCHANGED logs
       ELSE /\ logs' = Append(logs, Log("critical", "main",
                         "Otsutstvuet, kak minimum, odna peremennaya okruzheniya"))
            /\ pc' = "done"
            /\ UNCHANGED <<previous_status, last_error, cur>>
    /\ UNCHANGED <<env, hist, response, homework, current_status, error, net, calls, prev>>

\* lines 156-158
GetApiAnswer ==
    /\ pc = "poll"
    /\ \E n \in NetOutcomes, delivered \in BOOLEAN :
         LET o == get_api_answer(n, delivered)
         IN  /\ net' = n
             /\ calls' = calls \o o.calls
             /\ logs' = logs \o o.logs
             /\ IF o.exc # NoError
                THEN /\ error' = o.exc
                     /\ pc' = "except"
                     /\ UNCHANGED response
                ELSE /\ response' = o.ret
                     /\ pc' = "check"
                     /\ UNCHANGED error
    /\ cur' = [cur EXCEPT !.polls = @ + 1, !.slept = 0]
    /\ UNCHANGED <<env, hist, previous_status, last_error, homework, current_status,
                   prev>>

\* line 159
CheckResponse ==
    /\ pc = "check"
    /\ \E delivered \in BOOLEAN :
         LET o == check_response(response, delivered)
         IN  /\ calls' = calls \o o.calls
             /\ logs' = logs \o o.logs
             /\ IF o.exc # NoError
                THEN /\ error' = o.exc
                     /\ pc' = "except"
                     /\ UNCHANGED homework
                ELSE /\ homework' = o.ret
                     /\ pc' = "branch"
                     /\ UNCHANGED error
    /\ UNCHANGED <<env, hist, net, previous_status, last_error, response, current_status,
                   cur, prev>>

\* lines 161-162
ParseStatus ==
    /\ pc = "branch"
    /\ ~ PyEq(homework, Str(NO_NEW_STATUS))
    /\ LET o == parse_status(homework)
       IN  /\ logs' = logs \o o.logs
           /\ IF o.exc # NoError
              THEN /\ error' = o.exc
                   /\ pc' = "except"
                   /\ UNCHANGED current_status
              ELSE /\ current_status' = o.ret.v
                   /\ pc' = "compare"
                   /\ UNCHANGED error
    /\ UNCHANGED <<env, hist, net, previous_status, last_error, response, homework,
                   calls, cur, prev>>

\* lines 163-165 without the comparison of line 163
NotifyStatus_always ==
    /\ pc = "compare"
    /\ \E delivered \in BOOLEAN :
         LET s == send_message("main:164", current_status, delivered)
         IN  /\ calls' = calls \o s.calls
             /\ logs' = logs \o s.logs
             /\ previous_status' = current_status
             /\ cur' = End("status", current_status, calls')
             /\ pc' = "sleep"
             /\ UNCHANGED error
    /\ UNCHANGED <<env, hist, net, last_error, response, homework, current_status, prev>>
\* lines 163-165 with == for != in line 163
NotifyStatus_inverted ==
    /\ pc = "compare"
    /\ IF current_status = previous_status
       THEN \E delivered \in BOOLEAN :
              LET s == send_message("main:164", current_status, delivered)
              IN  /\ calls' = calls \o s.calls
                  /\ logs' = logs \o s.logs
                  /\ cur' = End("status", current_status, calls')
                  /\ UNCHANGED previous_status
       ELSE /\ cur' = End("status", current_status, calls)
            /\ UNCHANGED <<calls, logs, previous_status>>
    /\ pc' = "sleep"
    /\ UNCHANGED <<env, hist, net, last_error, response, homework, current_status,
                   error, prev>>
\* lines 163-165
NotifyStatus ==
    /\ pc = "compare"
    /\ IF current_status # previous_status
       THEN \E delivered \in BOOLEAN :
              LET s == send_message("main:164", current_status, delivered)
              IN  /\ calls' = calls \o s.calls
                  /\ logs' = logs \o s.logs
                  /\ IF s.exc # NoError
                     THEN /\ error' = s.exc
                          /\ pc' = "except"
                          /\ UNCHANGED <<previous_status, cur>>
                     ELSE /\ previous_status' = current_status
                          /\ cur' = End("status", current_status, calls')
                          /\ pc' = "sleep"
                          /\ UNCHANGED error
       ELSE /\ cur' = End("status", current_status, calls)
            /\ pc' = "sleep"
            /\ UNCHANGED <<calls, logs, previous_status, error>>
    /\ UNCHANGED <<env, hist, net, last_error, response, homework, current_status, prev>>

\* lines 166-167 with the sentinel compared to previous_status, as line
\* 163 does for a status
NotifySentinel_once ==
    /\ pc = "branch"
    /\ PyEq(homework, Str(NO_NEW_STATUS))
    /\ IF homework.v # previous_status
       THEN \E delivered \in BOOLEAN :
              LET s == send_message("main:167", homework.v, delivered)
              IN  /\ calls' = calls \o s.calls
                  /\ logs' = logs \o s.logs
                  /\ previous_status' = homework.v
       ELSE UNCHANGED <<calls, logs, previous_status>>
    /\ cur' = End("sentinel", homework.v, calls')
    /\ pc' = "sleep"
    /\ UNCHANGED <<env, hist, net, last_error, response, homework, current_status, error, prev>>
\* lines 166-167 followed by previous_status = homework
NotifySentinel_forgets ==
    /\ pc = "branch"
    /\ PyEq(homework, Str(NO_NEW_STATUS))
    /\ \E delivered \in BOOLEAN :
         LET s == send_message("main:167", homework.v, delivered)
         IN  /\ calls' = calls \o s.calls
             /\ logs' = logs \o s.logs
             /\ cur' = End("sentinel", homework.v, calls')
    /\ previous_status' = homework.v
    /\ pc' = "sleep"
    /\ UNCHANGED <<env, hist, net, last_error, response, homework, current_status,
                   error, prev>>
\* lines 166-167
NotifySentinel ==
    /\ pc = "branch"
    /\ PyEq(homework, Str(NO_NEW_STATUS))
    /\ \E delivered \in BOOLEAN :
         LET s == send_message("main:167", homework.v, delivered)
         IN  /\ calls' = calls \o s.calls
             /\ logs' = logs \o s.logs
             /\ IF s.exc # NoError
                THEN /\ error' = s.exc
                     /\ pc' = "except"
                     /\ UNCHANGED cur
                ELSE /\ cur' = End("sentinel", homework.v, calls')
                     /\ pc' = "sleep"
                     /\ UNCHANGED error
    /\ UNCHANGED <<env, hist, net, previous_status, last_error, response, homework,
                   current_status, prev>>

\* lines 168-173 with the exception leaving main() instead of being caught
Except_exit ==
    /\ pc = "except"
    /\ cur' = End("error", FailureMessage(error), calls)
    /\ pc' = "done"
    /\ UNCHANGED <<env, hist, net, previous_status, last_error, response, homework,
                   current_status, error, calls, logs, prev>>
\* lines 168-173 followed by a jump to line 156, past the sleep of line 174
Except_continue ==
    /\ pc = "except"
    /\ \E delivered \in BOOLEAN :
         LET s == send_message("main:173", FailureMessage(error), delivered)
         IN  /\ calls' = calls \o s.calls
             /\ logs' = (logs \o <<Log("error", "main", FailureMessage(error))>>) \o s.logs
             /\ cur' = End("error", FailureMessage(error), calls')
    /\ pc' = "poll"
    /\ UNCHANGED <<env, hist, net, previous_status, last_error, response, homework,
                   current_status, error, prev>>
\* lines 168-173.  last_error is not assigned here, nor anywhere after
\* line 154.  An exception leaving the except block would leave main().
Except ==
    /\ pc = "except"
    /\ LET message == FailureMessage(error)
       IN  IF last_error # message
           THEN \E delivered \in BOOLEAN :
                  LET s == send_message("main:173", message, delivered)
                  IN  /\ calls' = calls \o s.calls
                      /\ logs' = (logs \o <<Log("error", "main", message)>>) \o s.logs
                      /\ cur' = End("error", message, calls')
                      /\ pc' = IF s.exc # NoError THEN "done" ELSE "sleep"
           ELSE /\ cur' = End("error", message, calls)
                /\ pc' = "sleep"
                /\ UNCHANGED <<calls, logs>>
    /\ UNCHANGED <<env, hist, net, previous_status, last_error, response, homework,
                   current_status, error, prev>>

\* line 174 and the return to line 156.  response, homework,
\* current_status and error are assigned before they are read again, so
\* their old values are dropped here.
Sleep ==
    /\ pc = "sleep"
    /\ pc' = "poll"
    /\ prev' = cur
    /\ cur' = Begin(previous_status, cur.slept + RETRY_PERIOD)
    /\ seen' = [parsed |-> IF current_status # "" THEN current_status ELSE seen.parsed]
    /\ e2e' = IF /\ e2e.on
                 /\ e2e.polls < Len(Scenario)
                 /\ net = Scenario[e2e.polls + 1]
              THEN Followed(e2e.polls + 1, e2e.sent \o Texts(calls))
              ELSE NotFollowed
    /\ calls' = <<>>
    /\ logs' = <<>>
    /\ response' = NoValue
    /\ homework' = NoValue
    /\ current_status' = ""
    /\ error' = NoError
    /\ net' = NoRequest
    /\ UNCHANGED <<env, previous_status, last_error>>

Next ==
    \/ Main
    \/ GetApiAnswer
    \/ CheckResponse
    \/ ParseStatus
    \/ NotifyStatus
    \/ NotifySentinel
    \/ Except
    \/ Sleep

Spec == Init /\ [][Next]_vars

\* the interpreter keeps running main() until it returns
FairSpec == Spec /\ WF_vars(Next)

TypeOK ==
    /\ pc \in {"start", "poll", "check", "branch", "compare", "except",
               "sleep", "done"}
    /\ cur.outcome \in {"none", "running", "status", "sentinel", "error"}
    /\ cur.polls \in 0..1
    /\ cur.slept \in {0, RETRY_PERIOD}
    /\ pc \in {"start", "poll"} => seen.parsed = previous_status
    /\ e2e.on \in BOOLEAN
    /\ e2e.polls \in 0..Len(Scenario)

-----------------------------------------------------------------------------
(* Properties *)

\* number of send_message invocations in cs made at `by` with text `text`
Count(cs, by, text) ==
    Cardinality({ i \in DOMAIN cs : cs[i].by = by /\ cs[i].text = text })
\* number of send_message invocations in cs made at `by`
CountBy(cs, by) == Cardinality({ i \in DOMAIN cs : cs[i].by = by })

\* the iteration has run its try/except and stands before time.sleep
IterationOver == pc = "sleep"

C2_DuplicateErrorSuppressed ==
    (/\ IterationOver
     /\ prev.outcome = "error"
     /\ cur.outcome = "error"
     /\ prev.text = cur.text)
    => Count(prev.calls, "main:173", cur.text)
         + Count(cur.calls, "main:173", cur.text) = 1

\* C3: every iteration in which check_response returned the sentinel
\* invokes send_message with the sentinel text (once, at line 167),
\* whatever was sent before and whatever previous_status and last_error
\* hold.
C3_SentinelAlwaysSent ==
    (IterationOver /\ PyEq(homework, Str(NO_NEW_STATUS)))
    => /\ Count(calls, "main:167", NO_NEW_STATUS) = 1
       /\ cur.outcome = "sentinel"

C3_Witness ==
    /\ IterationOver
    /\ PyEq(homework, Str(NO_NEW_STATUS))
    /\ prev.outcome = "sentinel"
    /\ Count(prev.calls, "main:167", NO_NEW_STATUS) = 1
    /\ previous_status # ""
    /\ Count(calls, "main:167", NO_NEW_STATUS) = 1

\* the while loop of lines 155-174 is running
InLoop == pc \notin {"start", "done"}

\* C4: once main() is in the loop nothing ends it (no error of
\* get_api_answer, check_response or parse_status, no failed send): every
\* iteration reaches time.sleep and every sleep is followed by the next
\* poll.
C4_LoopNeverStops ==
    /\ [][InLoop => InLoop']_vars
    /\ (pc = "poll") ~> (pc = "sleep")
    /\ (pc = "sleep") ~> (pc = "poll")

\* an iteration failed, its notification failed too, and main() polls again
C4_Witness ==
    /\ pc = "poll"
    /\ prev.outcome = "error"
    /\ \E i \in DOMAIN prev.calls :
         prev.calls[i].by = "main:173" /\ ~ prev.calls[i].delivered

Present(x) == x \notin {None, ""}
AllCredentialsPresent ==
    Present(PRACTICUM_TOKEN) /\ Present(TELEGRAM_TOKEN) /\ Present(TELEGRAM_CHAT_ID)

\* C5: main() enters the loop exactly when all three credentials are
\* present and non-empty; otherwise it logs once at critical level and
\* ends: no poll is issued and send_message is never invoked.
C5_TokensGateLoop ==
    /\ InLoop => AllCredentialsPresent
    /\ pc = "done" =>
         /\ ~ AllCredentialsPresent
         /\ Len(logs) = 1
         /\ logs[1].level = "critical"
         /\ logs[1].by = "main"
         /\ calls = <<>>
         /\ net = NoRequest
         /\ cur = NoIteration
         /\ prev = NoIteration

C5_Witness ==
    /\ pc = "done"
    /\ PRACTICUM_TOKEN = "secret"
    /\ TELEGRAM_TOKEN = "secret"
    /\ TELEGRAM_CHAT_ID = ""
    /\ Len(logs) = 1

\* the send_message invocations in cs whose bot.send_message raised
Failed(cs) == { i \in DOMAIN cs : ~ cs[i].delivered }

\* C6: a failing bot.send_message is logged by send_message and goes no
\* further: no exception of send_message ever travels to a caller; a
\* failed send in an error branch of get_api_answer or check_response
\* leaves that branch's own error to be raised; a failed send in main()'s
\* try block lets the iteration end normally.
C6_SendFailureAbsorbed ==
    /\ error.by # "send_message"
    /\ error.type # "TelegramError"
    /\ Cardinality(Failed(calls)) =
         Cardinality({ i \in DOMAIN logs :
                         logs[i].by = "send_message" /\ logs[i].level = "error" })
    /\ \A i \in Failed(calls) :
         /\ calls[i].by \in {"get_api_answer", "check_response"} =>
              /\ error.by = calls[i].by
              /\ error.type \in {"RequestException", "TypeError", "Exception"}
         /\ calls[i].by \in {"main:164", "main:167"} =>
              /\ pc = "sleep"
              /\ error = NoError
              /\ cur.outcome \in {"status", "sentinel"}
         /\ calls[i].by = "main:173" => pc = "sleep"

C6_Witness ==
    /\ pc = "except"
    /\ error = Raise("TypeError", "", "check_response")
    /\ Len(calls) = 1
    /\ calls[1].by = "check_response"
    /\ ~ calls[1].delivered
    /\ \E i \in DOMAIN logs : logs[i].by = "send_message" /\ logs[i].level = "error"

\* the response is a mapping whose 'homeworks' value is a list
ListUnderKey(r) ==
    /\ r.type = "dict"
    /\ "homeworks" \in DOMAIN r.v
    /\ r.v["homeworks"].type = "list"

\* check_response has run on the response of this iteration
Checked == response # NoValue /\ pc # "check"

\* C7: on a mapping whose 'homeworks' value is a list, check_response
\* raises nothing and invokes send_message not at all; it returns the
\* sentinel string for the empty list and the element at index 0 otherwise.
C7_CheckResponseOnList ==
    (Checked /\ ListUnderKey(response))
    => /\ error.by # "check_response"
       /\ CountBy(calls, "check_response") = 0
       /\ \A i \in DOMAIN logs : logs[i].by # "check_response"
       /\ LET homeworks == response.v["homeworks"].v
          IN  IF Len(homeworks) = 0
              THEN homework.type = "str" /\ homework.v = NO_NEW_STATUS
              ELSE homework.type = "dict" /\ homework.v = homeworks[1].v

C7_Witness ==
    /\ pc = "branch"
    /\ ListUnderKey(response)
    /\ Len(response.v["homeworks"].v) = 2
    /\ response.v["homeworks"].v[1] # response.v["homeworks"].v[2]
    /\ homework = response.v["homeworks"].v[1]

\* C8: check_response raises TypeError when the response is not a mapping,
\* a plain Exception when the 'homeworks' key is absent, and TypeError
\* whenever the key is present with a value that is not a list, null
\* included.
C8_CheckResponseErrors ==
    (Checked /\ ~ ListUnderKey(response))
    => /\ error.by = "check_response"
       /\ IF response.type # "dict" THEN error.type = "TypeError"
          ELSE IF "homeworks" \notin DOMAIN response.v THEN error.type = "Exception"
          ELSE error.type = "TypeError"

\* the text line 145 gives for a name and a status code
Expected(name, status) ==
    "Izmenilsya status proverki raboty \"" \o name \o "\". " \o
      (CASE status = "approved" -> "Rabota proverena: revyueru vse ponravilos. Ura!"
         [] status = "reviewing" -> "Rabota vzyata na proverku revyuerom."
         [] status = "rejected" -> "Rabota proverena: u revyuera est zamechaniya.")

\* parse_status has run on the record of this iteration
Parsed == homework.type = "dict" /\ pc # "branch"

\* C9: parse_status returns the message with the record's name and the
\* verdict of its status exactly when the record has a 'status' among
\* approved, reviewing, rejected and a 'homework_name'; for every other
\* record it raises KeyError and gives no message.
C9_ParseStatus ==
    Parsed =>
      IF /\ "status" \in DOMAIN homework.v
         /\ homework.v["status"] \in {"approved", "reviewing", "rejected"}
         /\ "homework_name" \in DOMAIN homework.v
      THEN /\ error = NoError
           /\ current_status =
                Expected(homework.v["homework_name"], homework.v["status"])
      ELSE /\ error.type = "KeyError"
           /\ error.by = "parse_status"
           /\ current_status = ""
           /\ cur.outcome # "status"

C9_Witness ==
    /\ pc = "compare"
    /\ homework = Dict([status |-> "rejected", homework_name |-> "hw2"])
    /\ current_status =
         "Izmenilsya status proverki raboty \"hw2\". Rabota proverena: u revyuera est zamechaniya."

\* C10: when requests.get fails in transport, get_api_answer logs the
\* failure and invokes send_message before an error reaches main().
C10_TransportFailureNotified ==
    (net.raises /\ pc \in {"except", "sleep"})
    => /\ error.by = "get_api_answer"
       /\ \E i \in DOMAIN logs :
            logs[i].by = "get_api_answer" /\ logs[i].level = "error"
       /\ CountBy(calls, "get_api_answer") = 1

\* the GET of this iteration completed with a status other than 200
BadStatus == net # NoRequest /\ ~ net.raises /\ net.status_code # HTTP_OK

\* C11: on an HTTP status other than 200 get_api_answer logs, invokes
\* send_message exactly once and raises; it returns no payload, so neither
\* check_response nor parse_status runs in that iteration.
C11_BadStatusRaises ==
    BadStatus
    => /\ pc \in {"except", "sleep"}
       /\ error = Raise("RequestException", "", "get_api_answer")
       /\ CountBy(calls, "get_api_answer") = 1
       /\ calls[1].by = "get_api_answer"
       /\ logs[1] = Log("error", "get_api_answer", calls[1].text)
       /\ response = NoValue
       /\ homework = NoValue
       /\ current_status = ""
       /\ CountBy(calls, "check_response") = 0
       /\ \A i \in DOMAIN logs : logs[i].by \notin {"check_response", "parse_status"}

C11_Witness ==
    /\ pc = "except"
    /\ net.status_code = 503
    /\ net.json = Dict([homeworks |-> List(<<>>)])
    /\ Len(calls) = 1
    /\ calls[1].by = "get_api_answer"
    /\ error.type = "RequestException"

\* the iteration failed on the shape of the answer: check_response or
\* parse_status raised
SchemaError == error.by \in {"check_response", "parse_status"}

\* C12: in an iteration that fails with a schema error the only
\* send_message invocation is the one of main()'s except block (line 173),
\* so at most one notification is attempted for the error.
C12_SchemaErrorNotifiedOnce ==
    (IterationOver /\ SchemaError)
    => /\ Len(calls) <= 1
       /\ \A i \in DOMAIN calls : calls[i].by = "main:173"

\* C13: with credentials present and the first three polls answering a
\* 'reviewing' record of hw1, an 'approved' record of hw1 and an empty
\* list, main() invokes send_message exactly three times, in this order:
\* the hw1 message with the reviewing verdict, the hw1 message with the
\* approved verdict, the sentinel.
C13_EndToEnd ==
    e2e.on =>
      /\ e2e.polls = 0 => e2e.sent = <<>>
      /\ e2e.polls = 1 => e2e.sent =
           <<"Izmenilsya status proverki raboty \"hw1\". Rabota vzyata na proverku revyuerom.">>
      /\ e2e.polls = 2 => e2e.sent =
           <<"Izmenilsya status proverki raboty \"hw1\". Rabota vzyata na proverku revyuerom.",
             "Izmenilsya status proverki raboty \"hw1\". Rabota proverena: revyueru vse ponravilos. Ura!">>
      /\ e2e.polls = 3 => e2e.sent =
           <<"Izmenilsya status proverki raboty \"hw1\". Rabota vzyata na proverku revyuerom.",
             "Izmenilsya status proverki raboty \"hw1\". Rabota proverena: revyueru vse ponravilos. Ura!",
             "U domashki ne poyavilsya novyj status">>

C13_Witness ==
    /\ AllCredentialsPresent
    /\ pc = "poll"
    /\ e2e.on
    /\ e2e.polls = 3
    /\ Len(e2e.sent) = 3
    /\ prev.outcome = "sentinel"
    /\ previous_status =
         "Izmenilsya status proverki raboty \"hw1\". Rabota proverena: revyueru vse ponravilos. Ura!"

\* C14: last_error starts empty and, after every iteration whose except
\* block invoked send_message, equals the failure message just notified;
\* it is never empty again afterwards.
C14_LastErrorTracksNotified ==
    /\ pc = "poll" /\ prev = NoIteration => last_error = ""
    /\ (IterationOver /\ CountBy(calls, "main:173") > 0) =>
         /\ last_error = cur.text
         /\ calls[Len(calls)].text = last_error
    /\ (pc = "poll" /\ CountBy(prev.calls, "main:173") > 0) => last_error # ""

\* C15: on every path through the loop body exactly one sleep of
\* RETRY_PERIOD lies between two consecutive polls: get_api_answer is
\* called once per iteration, every iteration reaches the sleep, and the
\* next poll comes after one sleep of 600 seconds.
C15_OneSleepBetweenPolls ==
    /\ cur.polls <= 1
    /\ pc \in {"check", "branch", "compare", "except", "sleep"} =>
         cur.polls = 1 /\ cur.slept = 0
    /\ IterationOver => cur.outcome \in {"status", "sentinel", "error"}
    /\ pc = "poll" =>
         /\ cur.polls = 0
         /\ cur.slept = IF prev = NoIteration THEN 0 ELSE 600

\* a status was parsed again and not sent, and main() slept once before
\* the next poll
C15_Witness ==
    /\ pc = "poll"
    /\ prev.outcome = "status"
    /\ prev.calls = <<>>
    /\ prev.polls = 1
    /\ cur.slept = 600

\* C16: previous_status is overwritten only by a status message that was
\* delivered to the chat: an iteration changes it only to the text of a
\* delivered status notification, a status message whose delivery failed
\* stays different from previous_status, and the next iteration that
\* parses the same status attempts the notification again.
C16_PreviousStatusIsDelivered ==
    /\ IterationOver =>
         /\ previous_status # cur.pre =>
              \E i \in StatusCalls(calls) :
                  calls[i].delivered /\ calls[i].text = previous_status
         /\ \A i \in StatusCalls(calls) :
              ~ calls[i].delivered => previous_status # calls[i].text
    /\ (/\ IterationOver
        /\ current_status # ""
        /\ \E i \in StatusCalls(prev.calls) :
              ~ prev.calls[i].delivered /\ prev.calls[i].text = current_status)
       => StatusCalls(calls) # {}

\* C17: an iteration that ends with the sentinel or with an error leaves
\* previous_status as it found it; and in every iteration send_message is
\* invoked for a status message if and only if parse_status returned a
\* message that differs from the one it returned last in an earlier
\* iteration (or it returned none before), and then once, with that
\* message.
C17_StatusNotifiedIffChanged ==
    IterationOver =>
      /\ cur.outcome \in {"sentinel", "error"} => previous_status = cur.pre
      /\ StatusCalls(calls) # {} <=> (current_status # "" /\ current_status # seen.parsed)
      /\ Cardinality(StatusCalls(calls)) <= 1
      /\ \A i \in StatusCalls(calls) : calls[i].text = current_status

\* status A was parsed before, the previous iteration ended with an error
\* or the sentinel, and this iteration parses A again and sends nothing
C17_Witness ==
    /\ IterationOver
    /\ prev.outcome \in {"sentinel", "error"}
    /\ prev.pre = seen.parsed
    /\ cur.outcome = "status"
    /\ current_status = seen.parsed
    /\ current_status = previous_status
    /\ calls = <<>>

====
